---- MODULE Spec2Model ----
(***************************************************************************)
(* A model of core/src/providers/provider.rs: the retry driver             *)
(* with_retryable_back_off, the ModelError it classifies failures with,    *)
(* and the rendering of the errors it returns.                             *)
(*                                                                         *)
(* One call of with_retryable_back_off is a state machine over the locals  *)
(* of the function (attempts, sleep, err) and its position in the loop     *)
(* (pc).  What the call does to the outside is recorded as it happens:     *)
(* invocations of the operation f, the outcomes f returned, the calls of   *)
(* log_retry, the sleeps started and completed, the tracing records        *)
(* emitted, and the value returned (out).  cancelled records that the      *)
(* future of the call was dropped at one of its two await points.          *)
(*                                                                         *)
(* Calls running concurrently are modelled by calls (per call: position,   *)
(* current error and the record of what the call did) and locals (per      *)
(* call: its attempts and sleep), stepped one call at a time.              *)
(*                                                                         *)
(* ProviderID, its Display and FromStr and the factory provider() are      *)
(* functions; ops records their applications to the inputs drawn.          *)
(*                                                                         *)
(* Durations are whole milliseconds.  Duration * u32 panics on overflow    *)
(* of a u64 count of seconds; the delays reached within the bounds below   *)
(* are far from it and the panic is not modelled.                          *)
(***************************************************************************)
EXTENDS Integers, Sequences, FiniteSets, TLC

VARIABLES pc, attempts, sleep, err, invocations, outcomes, retry_log,
          sleeps_started, sleeps_completed, tracing, out, cancelled,
          calls, locals, ops

\* The variables of the single call.
driver_vars == <<pc, attempts, sleep, err, invocations, outcomes, retry_log,
                 sleeps_started, sleeps_completed, tracing, out, cancelled>>

\* The variables of the calls running concurrently.
concurrent_vars == <<calls, locals>>

\* The record of the ProviderID conversions and factory calls made.
provider_vars == <<ops>>

vars == <<driver_vars, concurrent_vars, provider_vars>>

(***************************************************************************)
(* Bounds of the model and the inputs the operation draws its outcomes     *)
(* from.                                                                   *)
(***************************************************************************)
MaxRetries == 2

\* The number of conversions and factory calls recorded in ops.
MaxOps == 2

\* The strings handed to ProviderID::from_str besides the ones it accepts.
UnknownStrings == {"OpenAI", "azureopenai", "google", "gpt-4", ""}

Sleeps == {100, 250}

Factors == {1, 2}

\* The (message, request_id) pairs of the ModelErrors the operation fails with.
Failures ==
    {[message |-> "rate limited", request_id |-> <<>>],
     [message |-> "rate limited", request_id |-> <<"req-1">>],
     [message |-> "server overloaded", request_id |-> <<"req-2">>]}

Values == {"completion-a", "completion-b"}

(***************************************************************************)
(* Option<T>: None is the empty tuple, Some(x) the one-element tuple.      *)
(***************************************************************************)
None == <<>>

Some(x) == <<x>>

Unwrap(o) == o[1]

IsSome(o) == o # None

(***************************************************************************)
(* struct ModelErrorRetryOptions { sleep, factor, retries }                *)
(***************************************************************************)
ModelErrorRetryOptions ==
    [sleep : Sleeps, factor : Factors, retries : 0..MaxRetries]

(***************************************************************************)
(* struct ModelError { message, retryable, request_id }, as the            *)
(* anyhow::Error an operation fails with; type is what downcast looks at.  *)
(***************************************************************************)
ModelError ==
    {[type |-> "ModelError",
      message |-> x.message,
      retryable |-> r,
      request_id |-> x.request_id] :
        x \in Failures,
        r \in {None} \cup {Some(o) : o \in ModelErrorRetryOptions}}

(***************************************************************************)
(* The errors an operation can fail with that are not a ModelError.        *)
(***************************************************************************)
OtherError ==
    [type : {"io::Error", "serde_json::Error"}, text : {"connection reset"}]

(***************************************************************************)
(* e.downcast::<ModelError>() succeeds exactly on a ModelError.            *)
(***************************************************************************)
Downcast(e) == e.type = "ModelError"

(***************************************************************************)
(* anyhow!(...) builds an error holding only the formatted text.           *)
(***************************************************************************)
Anyhow(text) == [type |-> "anyhow::Error", text |-> text]

(***************************************************************************)
(* Result<O, anyhow::Error>                                                *)
(***************************************************************************)
Ok(v) == [ok |-> TRUE, value |-> v]

Err(e) == [ok |-> FALSE, error |-> e]

BoolStr(b) == IF b THEN "true" ELSE "false"

\* Variant of Display: the message alone, without the retryable flag.
DisplayMessageOnly(e) == e.message

(***************************************************************************)
(* impl Display for ModelError                                             *)
(***************************************************************************)
Display(e) ==
    "[model_error(retryable=" \o BoolStr(IsSome(e.retryable)) \o ")] "
        \o e.message

\* Variant of NextAttempts: the failure is not counted.
NextAttemptsStuck(a) == a

(***************************************************************************)
(* attempts += 1                                                           *)
(***************************************************************************)
NextAttempts(a) == a + 1

\* Variant of NextSleep: every delay is recomputed from the sleep value of
\* the current error instead of the previous delay.
NextSleepFromBase(s, retry) ==
    IF s = None THEN Some(retry.sleep) ELSE Some(retry.sleep * retry.factor)

\* Variant of NextSleep: the delay grows by the base delay at every retry
\* (base times attempt count) instead of compounding by the factor.
NextSleepLinear(s, retry) ==
    IF s = None THEN Some(retry.sleep) ELSE Some(Unwrap(s) + retry.sleep)

(***************************************************************************)
(* sleep = match sleep { None => Some(retry.sleep),                        *)
(*                       Some(b) => Some(b * retry.factor) }               *)
(***************************************************************************)
NextSleep(s, retry) ==
    IF s = None THEN Some(retry.sleep) ELSE Some(Unwrap(s) * retry.factor)

\* Variant of LogRetryArgs: the base delay of the error is reported instead
\* of the delay about to be slept.
LogRetryArgsBaseDelay(e, s, a) ==
    [message |-> e.message, delay |-> Unwrap(e.retryable).sleep, attempt |-> a]

\* Variant of LogRetryArgs: attempt numbers counted from zero.
LogRetryArgsZeroBased(e, s, a) ==
    [message |-> e.message, delay |-> Unwrap(s), attempt |-> a - 1]

(***************************************************************************)
(* The arguments of log_retry(&err.message, sleep.as_ref().unwrap(),       *)
(* attempts).                                                              *)
(***************************************************************************)
LogRetryArgs(e, s, a) ==
    [message |-> e.message, delay |-> Unwrap(s), attempt |-> a]

\* Variant of BudgetExhausted: the call gives up as soon as the number of
\* failures reaches the budget.
BudgetExhaustedAtLimit(a, retry) == a >= retry.retries

\* Variant of BudgetExhausted: the first failure is not counted against the
\* budget, so that a budget of r allows r+1 retries.
BudgetExhaustedLate(a, retry) == a > retry.retries + 1

(***************************************************************************)
(* if attempts > retry.retries                                             *)
(***************************************************************************)
BudgetExhausted(a, retry) == a > retry.retries

\* Variant of ErrorEvent: the record is emitted on every exhaustion, with an
\* empty request_id when the error has none.
ErrorEventAlways(e) ==
    <<[level |-> "ERROR",
       request_id |-> IF IsSome(e.request_id) THEN Unwrap(e.request_id) ELSE "",
       error |-> e.message,
       message |-> "Failed to query model"]>>

(***************************************************************************)
(* if let Some(request_id) = &err.request_id { error!(...) }: the records  *)
(* the give-up path emits.                                                 *)
(***************************************************************************)
ErrorEvent(e) ==
    IF IsSome(e.request_id)
    THEN <<[level |-> "ERROR",
            request_id |-> Unwrap(e.request_id),
            error |-> e.message,
            message |-> "Failed to query model"]>>
    ELSE <<>>

\* Variant of TooManyRetries: the error that exhausted the budget is dropped
\* from the text.
TooManyRetriesNoCause(retry, e) ==
    Anyhow("Too many retries (" \o ToString(retry.retries) \o ")")

(***************************************************************************)
(* anyhow!("Too many retries ({}): {}", retry.retries, err)                *)
(***************************************************************************)
TooManyRetries(retry, e) ==
    Anyhow("Too many retries (" \o ToString(retry.retries) \o "): "
               \o Display(e))

\* Variant of FatalError: the bare message instead of the rendering.
FatalErrorBareMessage(e) == Anyhow(e.message)

(***************************************************************************)
(* anyhow!("{}", err) of the fatal arm                                     *)
(***************************************************************************)
FatalError(e) == Anyhow(Display(e))

\* Variant of PassThrough: the error is wrapped again with anyhow!.
PassThroughWrapped(e) == Err(Anyhow(e.text))

(***************************************************************************)
(* Err(err) => break Err(err): the error that failed the downcast is       *)
(* handed back as it is.                                                   *)
(***************************************************************************)
PassThrough(e) == Err(e)

(***************************************************************************)
(* Ok(out) => break Ok(out)                                                *)
(***************************************************************************)
BreakOk(v) == Ok(v)

\* Variant of AfterBackOff: the loop goes round at once, without awaiting the
\* sleep and without the budget check.
RetryAtOnce == "loop"

\* Variant of AfterBackOff: the sleep is created but not awaited, so the budget
\* check runs before the sleep has completed.
CheckFirst == "check"

(***************************************************************************)
(* Where the call is once log_retry has returned: suspended in             *)
(* tokio::time::sleep(sleep.unwrap()).await, which precedes the budget     *)
(* check.                                                                  *)
(***************************************************************************)
AfterBackOff == "sleeping"

(***************************************************************************)
(* Concurrent calls.  Calls names the calls in progress; each has its own  *)
(* record in calls and its own cell in locals.                             *)
(***************************************************************************)
Calls == {1, 2}

\* The outcomes the operations of concurrent calls resolve to.
ConcurrentOutcomes ==
    {Ok("completion-a"),
     Err([type |-> "io::Error", text |-> "connection reset"])}
    \cup {Err(e) : e \in {x \in ModelError :
                            /\ x.message = "rate limited"
                            /\ x.request_id = None
                            /\ IsSome(x.retryable) =>
                                  /\ Unwrap(x.retryable).sleep = 100
                                  /\ Unwrap(x.retryable).factor = 2}}

\* Variant of Cell: attempts and sleep live in one cell shared by all calls
\* (as a static would).
SharedCell(c) == 1

(***************************************************************************)
(* let mut attempts = 0_usize; let mut sleep: Option<Duration> = None;     *)
(* are locals of the function body: every call reads and writes its own.   *)
(***************************************************************************)
Cell(c) == c

InitLocals == [attempts |-> 0, sleep |-> None]

InitCall ==
    [pc |-> "loop", err |-> None, invocations |-> 0, outcomes |-> <<>>,
     retry_log |-> <<>>, sleeps_started |-> <<>>, sleeps_completed |-> <<>>,
     tracing |-> <<>>, out |-> None]

(***************************************************************************)
(* enum ProviderID                                                         *)
(***************************************************************************)
ProviderID ==
    {"OpenAI", "Cohere", "AI21", "AzureOpenAI", "Anthropic", "Mistral",
     "GoogleAiStudio"}

\* Variant of ProviderIDDisplay: every variant lowercased, without the
\* underscores of azure_openai and google_ai_studio.
ProviderIDDisplayLowercase(v) ==
    CASE v = "OpenAI" -> "openai"
      [] v = "Cohere" -> "cohere"
      [] v = "AI21" -> "ai21"
      [] v = "AzureOpenAI" -> "azureopenai"
      [] v = "Anthropic" -> "anthropic"
      [] v = "Mistral" -> "mistral"
      [] v = "GoogleAiStudio" -> "googleaistudio"

(***************************************************************************)
(* impl fmt::Display for ProviderID                                        *)
(***************************************************************************)
ProviderIDDisplay(v) ==
    CASE v = "OpenAI" -> "openai"
      [] v = "Cohere" -> "cohere"
      [] v = "AI21" -> "ai21"
      [] v = "AzureOpenAI" -> "azure_openai"
      [] v = "Anthropic" -> "anthropic"
      [] v = "Mistral" -> "mistral"
      [] v = "GoogleAiStudio" -> "google_ai_studio"

(***************************************************************************)
(* The values the message of the parse error lists, in its order.          *)
(***************************************************************************)
PossibleValues == <<"openai", "cohere", "ai21", "azure_openai", "mistral">>

RECURSIVE JoinComma(_)
JoinComma(l) ==
    IF l = <<>> THEN ""
    ELSE IF Len(l) = 1 THEN l[1]
    ELSE l[1] \o ", " \o JoinComma(Tail(l))

(***************************************************************************)
(* ParseError::with_message("Unknown provider ID (possible values: ...)")  *)
(***************************************************************************)
UnknownProviderID ==
    [type |-> "ParseError",
     text |-> "Unknown provider ID (possible values: "
                 \o JoinComma(PossibleValues) \o ")"]

(***************************************************************************)
(* impl FromStr for ProviderID                                             *)
(***************************************************************************)
ProviderIDFromStr(s) ==
    CASE s = "openai" -> Ok("OpenAI")
      [] s = "cohere" -> Ok("Cohere")
      [] s = "ai21" -> Ok("AI21")
      [] s = "azure_openai" -> Ok("AzureOpenAI")
      [] s = "anthropic" -> Ok("Anthropic")
      [] s = "mistral" -> Ok("Mistral")
      [] s = "google_ai_studio" -> Ok("GoogleAiStudio")
      [] OTHER -> Err(UnknownProviderID)

\* Variant of Provider: the arm of GoogleAiStudio builds the provider of the
\* arm above it.
ProviderCopiedArm(t) ==
    CASE t = "OpenAI" -> "OpenAIProvider"
      [] t = "Cohere" -> "CohereProvider"
      [] t = "AI21" -> "AI21Provider"
      [] t = "AzureOpenAI" -> "AzureOpenAIProvider"
      [] t = "Anthropic" -> "AnthropicProvider"
      [] t = "Mistral" -> "MistralProvider"
      [] t = "GoogleAiStudio" -> "MistralProvider"

(***************************************************************************)
(* pub fn provider(t: ProviderID) -> Box<dyn Provider + Sync + Send>: the  *)
(* type of the instance each arm builds.  The match has no `_` arm.        *)
(***************************************************************************)
Provider(t) ==
    CASE t = "OpenAI" -> "OpenAIProvider"
      [] t = "Cohere" -> "CohereProvider"
      [] t = "AI21" -> "AI21Provider"
      [] t = "AzureOpenAI" -> "AzureOpenAIProvider"
      [] t = "Anthropic" -> "AnthropicProvider"
      [] t = "Mistral" -> "MistralProvider"
      [] t = "GoogleAiStudio" -> "GoogleAiStudioProvider"

(***************************************************************************)
(* Provider::id() of each implementation: the identifier of the provider   *)
(* it implements.                                                          *)
(***************************************************************************)
ProviderId(instance) ==
    CASE instance = "OpenAIProvider" -> "OpenAI"
      [] instance = "CohereProvider" -> "Cohere"
      [] instance = "AI21Provider" -> "AI21"
      [] instance = "AzureOpenAIProvider" -> "AzureOpenAI"
      [] instance = "AnthropicProvider" -> "Anthropic"
      [] instance = "MistralProvider" -> "Mistral"
      [] instance = "GoogleAiStudioProvider" -> "GoogleAiStudio"

\* The strings from_str is applied to: what Display produces, and others.
Strings == {ProviderIDDisplay(v) : v \in ProviderID} \cup UnknownStrings

Init ==
    /\ pc = "loop"
    /\ attempts = 0
    /\ sleep = None
    /\ err = None
    /\ invocations = 0
    /\ outcomes = <<>>
    /\ retry_log = <<>>
    /\ sleeps_started = <<>>
    /\ sleeps_completed = <<>>
    /\ tracing = <<>>
    /\ out = None
    /\ cancelled = FALSE
    /\ calls = [c \in Calls |-> InitCall]
    /\ locals = [c \in Calls |-> InitLocals]
    /\ ops = <<>>

(***************************************************************************)
(* loop { match f().await ...: the operation is invoked.                   *)
(***************************************************************************)
CallF ==
    /\ pc = "loop"
    /\ pc' = "awaiting"
    /\ invocations' = invocations + 1
    /\ UNCHANGED <<attempts, sleep, err, outcomes, retry_log, sleeps_started,
                   sleeps_completed, tracing, out>>
    /\ UNCHANGED <<cancelled, concurrent_vars, provider_vars>>

(***************************************************************************)
(* f().await resolves to Ok(out): break Ok(out).                           *)
(***************************************************************************)
ArmOk(v) ==
    /\ pc = "awaiting"
    /\ outcomes' = Append(outcomes, Ok(v))
    /\ out' = Some(BreakOk(v))
    /\ pc' = "done"
    /\ UNCHANGED <<attempts, sleep, err, invocations, retry_log,
                   sleeps_started, sleeps_completed, tracing>>
    /\ UNCHANGED <<cancelled, concurrent_vars, provider_vars>>

(***************************************************************************)
(* f().await resolves to Err(e) and the downcast fails: break Err(err).    *)
(***************************************************************************)
ArmOtherError(e) ==
    /\ pc = "awaiting"
    /\ ~Downcast(e)
    /\ outcomes' = Append(outcomes, Err(e))
    /\ out' = Some(PassThrough(e))
    /\ pc' = "done"
    /\ UNCHANGED <<attempts, sleep, err, invocations, retry_log,
                   sleeps_started, sleeps_completed, tracing>>
    /\ UNCHANGED <<cancelled, concurrent_vars, provider_vars>>

(***************************************************************************)
(* f().await resolves to Err(e), e is a ModelError and err.retryable is    *)
(* None: break Err(anyhow!("{}", err)).                                    *)
(***************************************************************************)
ArmFatal(e) ==
    /\ pc = "awaiting"
    /\ Downcast(e)
    /\ e.retryable = None
    /\ outcomes' = Append(outcomes, Err(e))
    /\ out' = Some(Err(FatalError(e)))
    /\ pc' = "done"
    /\ UNCHANGED <<attempts, sleep, err, invocations, retry_log,
                   sleeps_started, sleeps_completed, tracing>>
    /\ UNCHANGED <<cancelled, concurrent_vars, provider_vars>>

(***************************************************************************)
(* f().await resolves to Err(e), e is a ModelError and err.retryable is    *)
(* Some(retry).  The code runs on without suspending: attempts += 1, the   *)
(* new sleep is computed, log_retry(&err.message, sleep.as_ref().unwrap(), *)
(* attempts) is called, tokio::time::sleep(sleep.unwrap()) is created and  *)
(* the call suspends in its .await.                                        *)
(***************************************************************************)
ArmRetryable(e) ==
    LET a == NextAttempts(attempts)
        s == NextSleep(sleep, Unwrap(e.retryable))
    IN  /\ pc = "awaiting"
        /\ Downcast(e)
        /\ IsSome(e.retryable)
        /\ outcomes' = Append(outcomes, Err(e))
        /\ err' = Some(e)
        /\ attempts' = a
        /\ sleep' = s
        /\ retry_log' = Append(retry_log, LogRetryArgs(e, s, a))
        /\ sleeps_started' = Append(sleeps_started, Unwrap(s))
        /\ pc' = AfterBackOff
        /\ UNCHANGED <<invocations, sleeps_completed, tracing, out>>
        /\ UNCHANGED <<cancelled, concurrent_vars, provider_vars>>

(***************************************************************************)
(* tokio::time::sleep(..).await returns when the timer fires.              *)
(***************************************************************************)
WakeUp ==
    /\ pc = "sleeping"
    /\ sleeps_completed' = Append(sleeps_completed, Unwrap(sleep))
    /\ pc' = "check"
    /\ UNCHANGED <<attempts, sleep, err, invocations, outcomes, retry_log,
                   sleeps_started, tracing, out>>
    /\ UNCHANGED <<cancelled, concurrent_vars, provider_vars>>

(***************************************************************************)
(* if attempts > retry.retries { ...; break Err(anyhow!(...)) }            *)
(***************************************************************************)
GiveUp ==
    /\ pc = "check"
    /\ BudgetExhausted(attempts, Unwrap(Unwrap(err).retryable))
    /\ tracing' = tracing \o ErrorEvent(Unwrap(err))
    /\ out' = Some(Err(TooManyRetries(Unwrap(Unwrap(err).retryable),
                                      Unwrap(err))))
    /\ pc' = "done"
    /\ UNCHANGED <<attempts, sleep, err, invocations, outcomes, retry_log,
                   sleeps_started, sleeps_completed>>
    /\ UNCHANGED <<cancelled, concurrent_vars, provider_vars>>

(***************************************************************************)
(* The budget is not exhausted: the match ends and the loop goes round.    *)
(***************************************************************************)
Retry ==
    /\ pc = "check"
    /\ ~BudgetExhausted(attempts, Unwrap(Unwrap(err).retryable))
    /\ pc' = "loop"
    /\ UNCHANGED <<attempts, sleep, err, invocations, outcomes, retry_log,
                   sleeps_started, sleeps_completed, tracing, out>>
    /\ UNCHANGED <<cancelled, concurrent_vars, provider_vars>>

Next ==
    \/ CallF
    \/ \E v \in Values : ArmOk(v)
    \/ \E e \in OtherError : ArmOtherError(e)
    \/ \E e \in ModelError : ArmFatal(e)
    \/ \E e \in ModelError : ArmRetryable(e)
    \/ WakeUp
    \/ GiveUp
    \/ Retry

Spec == Init /\ [][Next]_vars

(***************************************************************************)
(* The call under fair scheduling: the runtime keeps polling the future,   *)
(* every invocation of the operation eventually resolves and every sleep   *)
(* eventually ends, so a step that stays possible is eventually taken.     *)
(* The ModelErrors are those of one failure source; sleep, factor and      *)
(* retries vary as in Spec.                                                *)
(***************************************************************************)
LiveModelError ==
    {e \in ModelError : e.message = "rate limited" /\ e.request_id = None}

NextLive ==
    \/ CallF
    \/ \E v \in Values : ArmOk(v)
    \/ \E e \in OtherError : ArmOtherError(e)
    \/ \E e \in LiveModelError : ArmFatal(e)
    \/ \E e \in LiveModelError : ArmRetryable(e)
    \/ WakeUp
    \/ GiveUp
    \/ Retry

SpecLive == Init /\ [][NextLive]_vars /\ WF_vars(NextLive)

\* Variant of AfterDrop: the loop is handed to tokio::spawn and only its
\* JoinHandle is awaited, so dropping the future of the call leaves the loop
\* running from where it was.
KeepsRunning(p) == p

(***************************************************************************)
(* Where a call is once its future is dropped.  The loop is the body of    *)
(* the async fn itself and awaits f() and the sleep in place, without      *)
(* spawning: the code after an .await runs only when the future of the     *)
(* call is polled again, and a dropped future never is.                    *)
(***************************************************************************)
AfterDrop(p) == "dropped"

(***************************************************************************)
(* The enclosing task is cancelled while the call is suspended in          *)
(* f().await or in tokio::time::sleep(..).await, the two suspension points *)
(* of the function: the future of the call is dropped, and the pending     *)
(* operation or timer it owns with it.                                     *)
(***************************************************************************)
Drop ==
    /\ pc \in {"awaiting", "sleeping"}
    /\ ~cancelled
    /\ cancelled' = TRUE
    /\ pc' = AfterDrop(pc)
    /\ UNCHANGED <<attempts, sleep, err, invocations, outcomes, retry_log,
                   sleeps_started, sleeps_completed, tracing, out>>
    /\ UNCHANGED <<concurrent_vars, provider_vars>>

NextCancel ==
    \/ Next
    \/ Drop

SpecCancel == Init /\ [][NextCancel]_vars

(***************************************************************************)
(* The steps of call c among the concurrent calls: the statements of       *)
(* with_retryable_back_off, on the call's own record and its own locals.   *)
(***************************************************************************)
ConcCallF(c) ==
    /\ calls[c].pc = "loop"
    /\ calls' = [calls EXCEPT ![c].pc = "awaiting",
                              ![c].invocations = @ + 1]
    /\ UNCHANGED <<locals, driver_vars, provider_vars>>

\* f().await resolves to o and the match runs up to the break or, for a
\* retryable ModelError, up to the .await of the sleep.
ConcResolve(c, o) ==
    /\ calls[c].pc = "awaiting"
    /\ IF o.ok
       THEN /\ calls' = [calls EXCEPT ![c].outcomes = Append(@, o),
                                      ![c].out = Some(BreakOk(o.value)),
                                      ![c].pc = "done"]
            /\ UNCHANGED locals
       ELSE IF ~Downcast(o.error)
       THEN /\ calls' = [calls EXCEPT ![c].outcomes = Append(@, o),
                                      ![c].out = Some(PassThrough(o.error)),
                                      ![c].pc = "done"]
            /\ UNCHANGED locals
       ELSE IF o.error.retryable = None
       THEN /\ calls' = [calls EXCEPT ![c].outcomes = Append(@, o),
                                      ![c].out = Some(Err(FatalError(o.error))),
                                      ![c].pc = "done"]
            /\ UNCHANGED locals
       ELSE LET a == NextAttempts(locals[Cell(c)].attempts)
                s == NextSleep(locals[Cell(c)].sleep,
                               Unwrap(o.error.retryable))
            IN  /\ locals' = [locals EXCEPT ![Cell(c)] =
                                [attempts |-> a, sleep |-> s]]
                /\ calls' = [calls EXCEPT
                       ![c].outcomes = Append(@, o),
                       ![c].err = Some(o.error),
                       ![c].retry_log = Append(@, LogRetryArgs(o.error, s, a)),
                       ![c].sleeps_started = Append(@, Unwrap(s)),
                       ![c].pc = AfterBackOff]
    /\ UNCHANGED <<driver_vars, provider_vars>>

ConcWakeUp(c) ==
    /\ calls[c].pc = "sleeping"
    /\ calls' = [calls EXCEPT
                   ![c].sleeps_completed = Append(@, Unwrap(locals[Cell(c)].sleep)),
                   ![c].pc = "check"]
    /\ UNCHANGED <<locals, driver_vars, provider_vars>>

ConcGiveUp(c) ==
    LET e == Unwrap(calls[c].err)
        retry == Unwrap(e.retryable)
    IN  /\ calls[c].pc = "check"
        /\ BudgetExhausted(locals[Cell(c)].attempts, retry)
        /\ calls' = [calls EXCEPT
                       ![c].tracing = @ \o ErrorEvent(e),
                       ![c].out = Some(Err(TooManyRetries(retry, e))),
                       ![c].pc = "done"]
        /\ UNCHANGED <<locals, driver_vars, provider_vars>>

ConcRetry(c) ==
    LET e == Unwrap(calls[c].err)
        retry == Unwrap(e.retryable)
    IN  /\ calls[c].pc = "check"
        /\ ~BudgetExhausted(locals[Cell(c)].attempts, retry)
        /\ calls' = [calls EXCEPT ![c].pc = "loop"]
        /\ UNCHANGED <<locals, driver_vars, provider_vars>>

NextConcurrent ==
    \E c \in Calls :
        \/ ConcCallF(c)
        \/ \E o \in ConcurrentOutcomes : ConcResolve(c, o)
        \/ ConcWakeUp(c)
        \/ ConcGiveUp(c)
        \/ ConcRetry(c)

SpecConcurrent == Init /\ [][NextConcurrent]_vars

(***************************************************************************)
(* with_retryable_back_off run by itself on the outcomes outs, from the    *)
(* i-th on, with attempts a, sleep s and the log_retry calls log made so   *)
(* far: what it passes to log_retry, how many times it invokes the         *)
(* operation and what it returns (None while the loop would go on).        *)
(***************************************************************************)
RECURSIVE AloneFrom(_, _, _, _, _)
AloneFrom(outs, i, a, s, log) ==
    IF i > Len(outs)
    THEN [retry_log |-> log, invocations |-> Len(outs), out |-> None]
    ELSE LET o == outs[i]
         IN  IF o.ok
             THEN [retry_log |-> log, invocations |-> i,
                   out |-> Some(BreakOk(o.value))]
             ELSE IF ~Downcast(o.error)
             THEN [retry_log |-> log, invocations |-> i,
                   out |-> Some(PassThrough(o.error))]
             ELSE IF o.error.retryable = None
             THEN [retry_log |-> log, invocations |-> i,
                   out |-> Some(Err(FatalError(o.error)))]
             ELSE LET retry == Unwrap(o.error.retryable)
                      a2 == NextAttempts(a)
                      s2 == NextSleep(s, retry)
                      log2 == Append(log, LogRetryArgs(o.error, s2, a2))
                  IN  IF BudgetExhausted(a2, retry)
                      THEN [retry_log |-> log2, invocations |-> i,
                            out |-> Some(Err(TooManyRetries(retry, o.error)))]
                      ELSE AloneFrom(outs, i + 1, a2, s2, log2)

Alone(outs) == AloneFrom(outs, 1, 0, None, <<>>)

(***************************************************************************)
(* ProviderID::from_str(s) is applied.                                     *)
(***************************************************************************)
FromStrOp(s) ==
    /\ Len(ops) < MaxOps
    /\ ops' = Append(ops, [op |-> "from_str", input |-> s,
                           result |-> ProviderIDFromStr(s)])
    /\ UNCHANGED <<driver_vars, concurrent_vars>>

(***************************************************************************)
(* v.to_string() is applied.                                               *)
(***************************************************************************)
ToStringOp(v) ==
    /\ Len(ops) < MaxOps
    /\ ops' = Append(ops, [op |-> "to_string", id |-> v,
                           text |-> ProviderIDDisplay(v)])
    /\ UNCHANGED <<driver_vars, concurrent_vars>>

(***************************************************************************)
(* provider(t) is called and id() is called on the instance returned.      *)
(***************************************************************************)
ProviderOp(t) ==
    /\ Len(ops) < MaxOps
    /\ ops' = Append(ops, [op |-> "provider", id |-> t,
                           instance |-> Provider(t),
                           instance_id |-> ProviderId(Provider(t))])
    /\ UNCHANGED <<driver_vars, concurrent_vars>>

NextProvider ==
    \/ \E s \in Strings : FromStrOp(s)
    \/ \E v \in ProviderID : ToStringOp(v)
    \/ \E t \in ProviderID : ProviderOp(t)

SpecProvider == Init /\ [][NextProvider]_vars

(***************************************************************************)
(* What the claims speak about, read off the record of the call.           *)
(***************************************************************************)
IsRetryableFailure(o) ==
    /\ ~o.ok
    /\ Downcast(o.error)
    /\ IsSome(o.error.retryable)

IsFatalFailure(o) ==
    /\ ~o.ok
    /\ Downcast(o.error)
    /\ o.error.retryable = None

IsOtherFailure(o) ==
    /\ ~o.ok
    /\ ~Downcast(o.error)

Last(s) == s[Len(s)]

RetryOptionsOf(o) == Unwrap(o.error.retryable)

RECURSIVE Pow(_, _)
Pow(b, n) == IF n = 0 THEN 1 ELSE b * Pow(b, n - 1)

\* Every invocation so far failed with a retryable ModelError carrying
\* {sleep d, factor f, retries r}.
AlwaysFailsWith(d, f, r) ==
    /\ outcomes # <<>>
    /\ \A i \in 1..Len(outcomes) :
          /\ IsRetryableFailure(outcomes[i])
          /\ RetryOptionsOf(outcomes[i]) = [sleep |-> d, factor |-> f, retries |-> r]

\* Every retryable ModelError received so far carries the budget r.
SameBudget(r) ==
    \A i \in 1..Len(outcomes) :
        IsRetryableFailure(outcomes[i]) => RetryOptionsOf(outcomes[i]).retries = r

\* The call has returned because the retry budget was exhausted.
GaveUp ==
    /\ pc = "done"
    /\ outcomes # <<>>
    /\ IsRetryableFailure(Last(outcomes))

Returned == pc = "done"

(***************************************************************************)
(* C1: when every invocation fails with a retryable ModelError carrying    *)
(* {sleep d, factor f, retries r}, the n-th log_retry call is passed       *)
(* attempt n and delay d * f^(n-1), there are never more than r+1 calls    *)
(* of log_retry or of the operation, and the call returns only after       *)
(* exactly r+1 of each, with an error.                                     *)
(***************************************************************************)
C1_GeometricDelays ==
    \A d \in Sleeps, f \in Factors, r \in 0..MaxRetries :
        AlwaysFailsWith(d, f, r) =>
            /\ invocations <= r + 1
            /\ Len(retry_log) <= r + 1
            /\ \A n \in 1..Len(retry_log) :
                  /\ retry_log[n].attempt = n
                  /\ retry_log[n].delay = d * Pow(f, n - 1)
            /\ Returned =>
                  /\ invocations = r + 1
                  /\ Len(retry_log) = r + 1
                  /\ ~Unwrap(out).ok

C1_Witness ==
    /\ Returned
    /\ AlwaysFailsWith(100, 2, 2)
    /\ [n \in 1..Len(retry_log) |-> retry_log[n].delay] = <<100, 200, 400>>
    /\ invocations = 3

(***************************************************************************)
(* C2, as stated: with a budget of 0 and an operation that always fails    *)
(* with a retryable ModelError, the operation has been invoked exactly     *)
(* twice when the call gives up.                                           *)
(***************************************************************************)
C2_ZeroBudgetInvokesTwice ==
    \A d \in Sleeps, f \in Factors :
        (Returned /\ AlwaysFailsWith(d, f, 0)) => invocations = 2

(***************************************************************************)
(* C2, amended: with a budget of 0 and an operation that always fails      *)
(* with a retryable ModelError, the operation is invoked exactly once:     *)
(* the first failure is logged (attempt 1) and slept on and the call       *)
(* then gives up with an error, without invoking the operation again.      *)
(***************************************************************************)
C2_ZeroBudgetInvokesOnce ==
    \A d \in Sleeps, f \in Factors :
        AlwaysFailsWith(d, f, 0) =>
            /\ invocations = 1
            /\ pc \in {"sleeping", "check", "done"}
            /\ Returned =>
                  /\ Len(retry_log) = 1
                  /\ retry_log[1].attempt = 1
                  /\ sleeps_completed = <<d>>
                  /\ ~Unwrap(out).ok

C2_Witness ==
    /\ Returned
    /\ \E d \in Sleeps, f \in Factors : AlwaysFailsWith(d, f, 0)
    /\ invocations = 1

(***************************************************************************)
(* C3: if every retryable ModelError of the call carries the same budget   *)
(* r, the operation is invoked at most r+1 times, whatever the outcomes.   *)
(***************************************************************************)
C3_BudgetBoundsInvocations ==
    \A r \in 0..MaxRetries :
        SameBudget(r) => invocations <= r + 1

C3_Witness ==
    /\ Returned
    /\ SameBudget(2)
    /\ invocations = 3
    /\ IsRetryableFailure(outcomes[1])
    /\ IsRetryableFailure(outcomes[2])

(***************************************************************************)
(* C4: when the first two invocations failed with a retryable ModelError   *)
(* and the third returned Ok(v), the call has returned Ok(v) and log_retry *)
(* was called exactly twice, with attempt numbers 1 and 2.                 *)
(***************************************************************************)
FailFailOk ==
    /\ Len(outcomes) = 3
    /\ IsRetryableFailure(outcomes[1])
    /\ IsRetryableFailure(outcomes[2])
    /\ outcomes[3].ok

C4_SuccessAfterTwoRetries ==
    FailFailOk =>
        /\ Returned
        /\ out = Some(Ok(outcomes[3].value))
        /\ invocations = 3
        /\ Len(retry_log) = 2
        /\ retry_log[1].attempt = 1
        /\ retry_log[2].attempt = 2

C4_Witness ==
    /\ FailFailOk
    /\ out = Some(Ok("completion-b"))

(***************************************************************************)
(* C5: when the last outcome received is a ModelError with retryable =     *)
(* None, the call has returned an error whose text is that error's         *)
(* rendering; the operation was not invoked again, and log_retry and       *)
(* sleep happened only for the retryable failures that came before.        *)
(***************************************************************************)
C5_FatalReturnsAtOnce ==
    (outcomes # <<>> /\ IsFatalFailure(Last(outcomes))) =>
        /\ Returned
        /\ out = Some(Err([type |-> "anyhow::Error",
                           text |-> "[model_error(retryable=false)] "
                                       \o Last(outcomes).error.message]))
        /\ invocations = Len(outcomes)
        /\ Len(retry_log) = Len(outcomes) - 1
        /\ Len(sleeps_started) = Len(outcomes) - 1
        /\ Len(sleeps_completed) = Len(outcomes) - 1
        /\ tracing = <<>>

C5_Witness ==
    /\ Len(outcomes) = 2
    /\ IsRetryableFailure(outcomes[1])
    /\ IsFatalFailure(outcomes[2])
    /\ Returned

(***************************************************************************)
(* C6: when the last outcome received is an error that is not a            *)
(* ModelError, the call has returned that very error; the operation was    *)
(* not invoked again, and log_retry and sleep happened only for the        *)
(* retryable failures that came before.                                    *)
(***************************************************************************)
C6_OtherErrorReturnedUnchanged ==
    (outcomes # <<>> /\ IsOtherFailure(Last(outcomes))) =>
        /\ Returned
        /\ out = Some(Last(outcomes))
        /\ invocations = Len(outcomes)
        /\ Len(retry_log) = Len(outcomes) - 1
        /\ Len(sleeps_started) = Len(outcomes) - 1
        /\ Len(sleeps_completed) = Len(outcomes) - 1
        /\ tracing = <<>>

C6_Witness ==
    /\ Len(outcomes) = 1
    /\ IsOtherFailure(outcomes[1])
    /\ Unwrap(out).error.type = "io::Error"
    /\ retry_log = <<>>

(***************************************************************************)
(* C7: the call holds a result exactly when it has returned, and the       *)
(* result follows from the last outcome of the operation: Ok(v) when that  *)
(* was Ok(v), the error itself when it was not a ModelError, the wrapped   *)
(* rendering when it was a fatal ModelError, and the exhaustion error      *)
(* built from it when it was a retryable ModelError.                       *)
(***************************************************************************)
C7_NeverSwallowsAnError ==
    /\ Returned <=> out # None
    /\ Returned =>
          /\ outcomes # <<>>
          /\ invocations = Len(outcomes)
          /\ LET last == Last(outcomes)
                 res == Unwrap(out)
             IN  /\ res.ok <=> last.ok
                 /\ last.ok => res.value = last.value
                 /\ IsOtherFailure(last) => res.error = last.error
                 /\ IsFatalFailure(last) =>
                       /\ res.error.type = "anyhow::Error"
                       /\ res.error.text =
                             "[model_error(retryable=false)] " \o last.error.message
                 /\ IsRetryableFailure(last) =>
                       /\ res.error.type = "anyhow::Error"
                       /\ res.error.text =
                             "Too many retries ("
                                \o ToString(RetryOptionsOf(last).retries)
                                \o "): [model_error(retryable=true)] "
                                \o last.error.message

C7_Witness ==
    /\ GaveUp
    /\ Len(outcomes) = 2
    /\ outcomes[1].error.message # outcomes[2].error.message
    /\ ~Unwrap(out).ok

(***************************************************************************)
(* C8: the budget check is reached only with the failure logged and its    *)
(* sleep completed, so a call that gave up after n retryable failures has  *)
(* made n log_retry calls and n completed sleeps, the last of them with    *)
(* the delay computed for the final failure.                               *)
(***************************************************************************)
C8_GiveUpAfterLogAndSleep ==
    /\ pc = "check" =>
          /\ Len(retry_log) = attempts
          /\ Len(sleeps_completed) = attempts
          /\ Last(retry_log).delay = Unwrap(sleep)
          /\ Last(sleeps_completed) = Unwrap(sleep)
    /\ GaveUp =>
          /\ Len(retry_log) = Len(outcomes)
          /\ Len(sleeps_started) = Len(outcomes)
          /\ Len(sleeps_completed) = Len(outcomes)
          /\ Last(retry_log).attempt = Len(outcomes)
          /\ Last(sleeps_completed) = Last(retry_log).delay

C8_Witness ==
    /\ GaveUp
    /\ Len(outcomes) = 3
    /\ Len(sleeps_completed) = 3

(***************************************************************************)
(* C9, as stated: whenever the call gives up, one record of severity       *)
(* error carrying the error message has been emitted, whether or not the   *)
(* ModelError carries a request_id.                                        *)
(***************************************************************************)
C9_EveryExhaustionEmits ==
    GaveUp =>
        /\ Len(tracing) = 1
        /\ tracing[1].level = "ERROR"
        /\ tracing[1].error = Last(outcomes).error.message

(***************************************************************************)
(* C9, amended: when the call gives up and the last ModelError carries a   *)
(* request_id, exactly one record of severity error carrying that          *)
(* request_id and the error message has been emitted; when it carries no   *)
(* request_id nothing is emitted; and nothing is emitted on any other      *)
(* path.                                                                   *)
(***************************************************************************)
C9_ExhaustionEmitsOnlyWithRequestId ==
    /\ GaveUp =>
          LET e == Last(outcomes).error
          IN  IF IsSome(e.request_id)
              THEN /\ Len(tracing) = 1
                   /\ tracing[1].level = "ERROR"
                   /\ tracing[1].request_id = Unwrap(e.request_id)
                   /\ tracing[1].error = e.message
              ELSE tracing = <<>>
    /\ ~GaveUp => tracing = <<>>

C9_Witness ==
    /\ GaveUp
    /\ Last(outcomes).error.request_id = None
    /\ tracing = <<>>

(***************************************************************************)
(* C10: the error returned on exhaustion states the retries value of the   *)
(* last ModelError and ends with that error's rendering, which holds the   *)
(* retryable flag (true) and the message.                                  *)
(***************************************************************************)
C10_ExhaustionErrorText ==
    GaveUp =>
        LET e == Last(outcomes).error
        IN  /\ ~Unwrap(out).ok
            /\ Unwrap(out).error.text =
                  "Too many retries (" \o ToString(Unwrap(e.retryable).retries)
                     \o "): " \o "[model_error(retryable=true)] " \o e.message

C10_Witness ==
    /\ GaveUp
    /\ Len(outcomes) = 3
    /\ RetryOptionsOf(outcomes[1]).retries # RetryOptionsOf(outcomes[3]).retries
    /\ Unwrap(out).error.text =
          "Too many retries (2): [model_error(retryable=true)] rate limited"

(***************************************************************************)
(* C11: attempts are strictly sequential.  At most one invocation of the   *)
(* operation is in flight, and it is in flight exactly while the call      *)
(* awaits it; a step that starts an invocation is taken only when every    *)
(* earlier invocation has delivered its outcome and every one of those     *)
(* outcomes (all retryable failures, since the loop went on) has had its   *)
(* log_retry call and its sleep completed.                                 *)
(***************************************************************************)
InFlight == invocations - Len(outcomes)

C11_AttemptsAreSequential ==
    /\ [](/\ InFlight \in {0, 1}
          /\ InFlight = 1 <=> pc = "awaiting")
    /\ [][invocations' # invocations =>
            /\ invocations' = invocations + 1
            /\ Len(outcomes) = invocations
            /\ \A i \in 1..Len(outcomes) : IsRetryableFailure(outcomes[i])
            /\ Len(retry_log) = Len(outcomes)
            /\ Len(sleeps_started) = Len(outcomes)
            /\ Len(sleeps_completed) = Len(outcomes)]_vars

C11_Witness ==
    /\ pc = "awaiting"
    /\ invocations = 3
    /\ Len(outcomes) = 2
    /\ Len(sleeps_completed) = 2

(***************************************************************************)
(* C12, as stated: once the enclosing task is cancelled while the call     *)
(* awaits the operation or the sleep, the call has surfaced an outcome     *)
(* (the cancellation is the last step of the call, so an outcome the call  *)
(* surfaces for it is there from then on), and from then on no operation   *)
(* is invoked, no log_retry call is made and no sleep is started or        *)
(* completed.                                                              *)
(***************************************************************************)
C12_CancellationSurfacesAnOutcome ==
    /\ [](cancelled => IsSome(out))
    /\ [][cancelled =>
            UNCHANGED <<invocations, outcomes, retry_log, sleeps_started,
                        sleeps_completed>>]_vars

(***************************************************************************)
(* C12, amended: once the future of the call is dropped while it awaits    *)
(* the operation or the sleep, the call is over without an outcome of its  *)
(* own (it returns neither Ok nor Err, then or later), and from then on    *)
(* no operation is invoked, no outcome of the operation is received, no    *)
(* log_retry call is made, no sleep is started or completed, nothing is    *)
(* emitted and attempts and sleep keep their values.                       *)
(***************************************************************************)
C12_CancellationStopsTheCall ==
    /\ [](cancelled => out = None)
    /\ [][cancelled =>
            UNCHANGED <<attempts, sleep, err, invocations, outcomes,
                        retry_log, sleeps_started, sleeps_completed, tracing,
                        out>>]_vars

C12_Witness ==
    /\ cancelled
    /\ out = None
    /\ Len(sleeps_started) = 2
    /\ Len(sleeps_completed) = 1
    /\ invocations = 2

(***************************************************************************)
(* C13: under every interleaving of two concurrent calls, each call does   *)
(* what it does when run by itself on the outcomes it received: the        *)
(* log_retry calls it has made are the first of those of the run alone     *)
(* (same attempt numbers, same delays), it is still going exactly when the *)
(* run alone would be, and once it has returned its log_retry calls, its   *)
(* number of invocations and its result are those of the run alone.        *)
(***************************************************************************)
C13_ConcurrentCallsAreIndependent ==
    \A c \in Calls :
        LET me == calls[c]
            alone == Alone(me.outcomes)
            logged == Len(me.retry_log)
        IN  /\ logged <= Len(alone.retry_log)
            /\ me.retry_log = SubSeq(alone.retry_log, 1, logged)
            /\ logged = Len(alone.retry_log)
            /\ me.pc \in {"loop", "awaiting"} =>
                  /\ alone.out = None
                  /\ me.invocations =
                        Len(me.outcomes) + (IF me.pc = "awaiting" THEN 1 ELSE 0)
            /\ me.pc = "done" =>
                  /\ me.out = alone.out
                  /\ me.invocations = alone.invocations
                  /\ me.retry_log = alone.retry_log

C13_Witness ==
    /\ calls[1].pc = "done"
    /\ calls[2].pc = "done"
    /\ Len(calls[1].retry_log) = 3
    /\ Len(calls[2].retry_log) = 1
    /\ calls[2].out = Some(Ok("completion-a"))
    /\ calls[1].retry_log[3].delay = 400

(***************************************************************************)
(* C14: parsing and display of ProviderID are inverse.  Whenever from_str  *)
(* is applied to the text to_string gave for a variant v, it returns       *)
(* Ok(v); whenever to_string is applied to the variant from_str returned   *)
(* for a string s, it gives s; and the strings from_str accepts are        *)
(* exactly the seven canonical ones.                                       *)
(***************************************************************************)
CanonicalStrings ==
    {"openai", "cohere", "ai21", "azure_openai", "anthropic", "mistral",
     "google_ai_studio"}

C14_ParseAndDisplayAreInverse ==
    \A i \in 1..Len(ops), j \in 1..Len(ops) :
        /\ (/\ ops[i].op = "to_string"
            /\ ops[j].op = "from_str"
            /\ ops[j].input = ops[i].text)
              => ops[j].result = [ok |-> TRUE, value |-> ops[i].id]
        /\ (/\ ops[i].op = "from_str"
            /\ ops[i].result.ok
            /\ ops[j].op = "to_string"
            /\ ops[j].id = ops[i].result.value)
              => ops[j].text = ops[i].input
        /\ ops[i].op = "from_str" =>
              (ops[i].result.ok <=> ops[i].input \in CanonicalStrings)

C14_Witness ==
    /\ Len(ops) = 2
    /\ ops[1].op = "to_string"
    /\ ops[1].id = "AzureOpenAI"
    /\ ops[2].op = "from_str"
    /\ ops[2].input = ops[1].text
    /\ ops[2].result.ok

(***************************************************************************)
(* C15: when from_str fails, the possible values its error lists include   *)
(* every string from_str accepts.                                          *)
(***************************************************************************)
FromStrAccepts == {s \in Strings : ProviderIDFromStr(s).ok}

Listed(l) == {l[k] : k \in 1..Len(l)}

C15_ParseErrorListsAcceptedStrings ==
    \A i \in 1..Len(ops) :
        (ops[i].op = "from_str" /\ ~ops[i].result.ok) =>
            LET l == PossibleValues
            IN  /\ ops[i].result.error.text =
                      "Unknown provider ID (possible values: "
                         \o JoinComma(l) \o ")"
                /\ \A s \in FromStrAccepts : s \in Listed(l)

(***************************************************************************)
(* C16: provider(t) returns, for each of the seven variants, an instance   *)
(* of the implementation named after the variant, a different one for      *)
(* each variant, and id() of the instance is t.                            *)
(***************************************************************************)
C16_FactoryIsTotalAndFaithful ==
    /\ \A i \in 1..Len(ops) :
          ops[i].op = "provider" =>
              /\ ops[i].id \in ProviderID
              /\ ops[i].instance = ops[i].id \o "Provider"
              /\ ops[i].instance_id = ops[i].id
    /\ \A i \in 1..Len(ops), j \in 1..Len(ops) :
          (/\ ops[i].op = "provider"
           /\ ops[j].op = "provider"
           /\ ops[i].id # ops[j].id) => ops[i].instance # ops[j].instance

C16_Witness ==
    /\ Len(ops) = 2
    /\ ops[1].op = "provider"
    /\ ops[1].id = "Mistral"
    /\ ops[2].op = "provider"
    /\ ops[2].id = "GoogleAiStudio"
    /\ ops[2].instance = "GoogleAiStudioProvider"
    /\ ops[2].instance_id = "GoogleAiStudio"

(***************************************************************************)
(* C17: the delay compounds off the previous delay.  The delay of the      *)
(* first retryable failure is the sleep value of its error; the delay of   *)
(* every later one is the previous delay times the factor of its own       *)
(* error, whatever sleep value that error carries.                         *)
(***************************************************************************)
C17_DelayCompounds ==
    \A n \in 1..Len(retry_log) :
        /\ n = 1 => retry_log[n].delay = RetryOptionsOf(outcomes[1]).sleep
        /\ n > 1 => retry_log[n].delay =
                       retry_log[n - 1].delay * RetryOptionsOf(outcomes[n]).factor

C17_Witness ==
    /\ Len(retry_log) = 3
    /\ RetryOptionsOf(outcomes[1]).sleep = 100
    /\ RetryOptionsOf(outcomes[2]).sleep = 250
    /\ RetryOptionsOf(outcomes[2]).factor = 2
    /\ RetryOptionsOf(outcomes[3]).sleep = 250
    /\ RetryOptionsOf(outcomes[3]).factor = 2
    /\ retry_log[3].delay = 400

(***************************************************************************)
(* C18: in every reachable state the number of log_retry calls equals the  *)
(* number of retryable failures received and the attempts counter, the     *)
(* k-th call is passed attempt k, and the sleeps started are the delays    *)
(* passed to log_retry, one for one (the sleep is created right after its  *)
(* log_retry call, before the call suspends again); a call that has        *)
(* received no retryable failure has made no log_retry call and no sleep.  *)
(***************************************************************************)
RetryableFailures ==
    Cardinality({i \in 1..Len(outcomes) : IsRetryableFailure(outcomes[i])})

HooksAndSleepsAgree ==
    /\ \A k \in 1..Len(retry_log) : retry_log[k].attempt = k
    /\ Len(sleeps_started) = Len(retry_log)
    /\ \A k \in 1..Len(sleeps_started) :
          sleeps_started[k] = retry_log[k].delay

C18_HookCallsEqualAttempts ==
    /\ Len(retry_log) = RetryableFailures
    /\ Len(retry_log) = attempts
    /\ HooksAndSleepsAgree
    /\ RetryableFailures = 0 =>
          (retry_log = <<>> /\ sleeps_started = <<>> /\ sleeps_completed = <<>>)

C18_Witness ==
    /\ pc = "sleeping"
    /\ attempts = 2
    /\ RetryableFailures = 2
    /\ [k \in 1..Len(retry_log) |-> retry_log[k].attempt] = <<1, 2>>
    /\ sleeps_started = <<250, 500>>
    /\ sleeps_completed = <<250>>

(***************************************************************************)
(* C19: exhaustion is decided against the budget of the most recent error. *)
(* The call goes on after its n-th retryable failure exactly when that     *)
(* error carries retries >= n, and gives up after it exactly when it       *)
(* carries retries < n, whatever the earlier errors carried; the           *)
(* exhaustion error states the retries value of that last error.           *)
(***************************************************************************)
C19_LastErrorDecidesExhaustion ==
    /\ \A n \in 1..Len(outcomes) :
          (IsRetryableFailure(outcomes[n]) /\ n < Len(outcomes)) =>
              RetryOptionsOf(outcomes[n]).retries >= n
    /\ (outcomes # <<>> /\ IsRetryableFailure(Last(outcomes))) =>
          LET n == Len(outcomes)
              r == RetryOptionsOf(Last(outcomes)).retries
          IN  /\ pc \in {"sleeping", "check", "done"}
                    => invocations = n
              /\ pc \in {"loop", "awaiting"} => r >= n
              /\ pc = "done" =>
                    /\ r < n
                    /\ Unwrap(out).error.text =
                          "Too many retries (" \o ToString(r) \o "): "
                             \o "[model_error(retryable=true)] "
                             \o Last(outcomes).error.message

C19_Witness ==
    /\ GaveUp
    /\ Len(outcomes) = 2
    /\ RetryOptionsOf(outcomes[1]).retries = 2
    /\ RetryOptionsOf(outcomes[2]).retries = 0
    /\ Unwrap(out).error.text =
          "Too many retries (0): [model_error(retryable=true)] server overloaded"

(***************************************************************************)
(* C20: when every invocation and every sleep eventually completes and     *)
(* every retryable ModelError carries retries <= MaxRetries, the call      *)
(* invokes the operation at most MaxRetries + 1 times and eventually       *)
(* returns, whatever the outcomes.                                         *)
(***************************************************************************)
C20_EventuallyReturns ==
    /\ [](invocations <= MaxRetries + 1)
    /\ <>Returned

C20_Witness ==
    /\ Returned
    /\ invocations = MaxRetries + 1
    /\ Len(sleeps_completed) = MaxRetries + 1

====
